---- MODULE Spec2Model ----
(***************************************************************************)
(* Plumbing pipe sizer: the fixture-unit interpolation table               *)
(* (gpm_and_fixture_units.py), the friction-factor and velocity solvers    *)
(* (fluid_dynamic_equations.py) and the batch calculation over the copper  *)
(* pipe sizes (pipe_flow_calcs.py, calculate).                             *)
(*                                                                         *)
(* Numbers.  A flow, a velocity or a Reynolds number is an exact rational  *)
(* num/den with den > 0.  Python values are either an int or a str: a      *)
(* returned value is the record IntResult(n) or StrResult(s).  A str that  *)
(* the code passes to .lower() is a sequence of character codes, so that   *)
(* case folding is computed and not assumed.                               *)
(***************************************************************************)
EXTENDS Integers, Sequences, FiniteSets, TLC

\* ------------------------------------------------------------------------
\* Python values
\* ------------------------------------------------------------------------

\* Python's None in the valve column of fixture_data (every entry is >= 0).
None == -1

IntResult(n) == [type |-> "int", int |-> n, str |-> ""]

StrResult(s) == [type |-> "str", int |-> 0, str |-> s]

\* The value of a name that has not been assigned yet.
Unset == [type |-> "unset", int |-> 0, str |-> ""]

\* math.floor of the exact quotient num/den, den > 0.
floor_mutant_ceil(num, den) == -((-num) \div den)

floor(num, den) == num \div den

\* str.lower() on ASCII: 'A'..'Z' (65..90) map to 'a'..'z', the rest is kept.
lower(s) == [k \in DOMAIN s |-> IF s[k] \in 65..90 THEN s[k] + 32 ELSE s[k]]

\* The str literals "tank" and "valve" as character codes.
str_tank == <<116, 97, 110, 107>>

str_valve == <<118, 97, 108, 118, 101>>

\* ------------------------------------------------------------------------
\* gpm_and_fixture_units.py
\* ------------------------------------------------------------------------

\* (GPM, tank fixture units, valve fixture units)
fixture_data == <<
    <<1, 0, None>>, <<2, 1, None>>, <<3, 3, None>>, <<4, 4, None>>, <<5, 6, None>>, <<6, 7, None>>,
    <<7, 8, None>>, <<8, 10, None>>, <<9, 12, None>>, <<10, 13, None>>, <<11, 15, None>>, <<12, 16, None>>,
    <<13, 18, None>>, <<14, 20, None>>, <<15, 21, None>>, <<16, 23, None>>, <<17, 24, None>>, <<18, 26, None>>,
    <<19, 28, None>>, <<20, 30, None>>, <<21, 32, None>>, <<22, 34, 5>>, <<23, 36, 6>>, <<24, 39, 7>>,
    <<25, 42, 8>>, <<26, 44, 9>>, <<27, 46, 10>>, <<28, 49, 11>>, <<29, 51, 12>>, <<30, 54, 13>>,
    <<31, 56, 14>>, <<32, 58, 15>>, <<33, 60, 16>>, <<34, 63, 18>>, <<35, 66, 20>>, <<36, 69, 21>>,
    <<37, 74, 23>>, <<38, 78, 25>>, <<39, 83, 26>>, <<40, 86, 28>>, <<41, 90, 30>>, <<42, 95, 31>>,
    <<43, 99, 33>>, <<44, 103, 35>>, <<45, 107, 37>>, <<46, 111, 39>>, <<47, 115, 42>>, <<48, 119, 44>>,
    <<49, 123, 46>>, <<50, 127, 48>>, <<51, 130, 50>>, <<52, 135, 52>>, <<53, 141, 54>>, <<54, 146, 57>>,
    <<55, 151, 60>>, <<56, 155, 63>>, <<57, 160, 66>>, <<58, 165, 69>>, <<59, 170, 73>>, <<60, 175, 76>>,
    <<62, 185, 82>>, <<64, 195, 88>>, <<66, 205, 95>>, <<68, 215, 102>>, <<70, 225, 108>>, <<72, 236, 116>>,
    <<74, 245, 124>>, <<76, 254, 132>>, <<78, 264, 140>>, <<80, 275, 148>>, <<82, 284, 158>>, <<84, 294, 168>>,
    <<86, 305, 176>>, <<88, 315, 186>>, <<90, 326, 195>>, <<92, 337, 205>>, <<94, 348, 214>>, <<96, 359, 223>>,
    <<98, 370, 234>>, <<100, 380, 245>>, <<105, 405, 270>>, <<110, 431, 295>>, <<115, 455, 329>>, <<120, 479, 365>>,
    <<125, 506, 396>>, <<130, 533, 430>>, <<135, 559, 460>>, <<140, 585, 490>>, <<145, 611, 521>>, <<150, 638, 559>>,
    <<155, 665, 596>>, <<160, 692, 631>>, <<165, 719, 666>>, <<170, 748, 700>>, <<175, 778, 739>>, <<180, 809, 775>>,
    <<185, 840, 811>>, <<190, 874, 850>>, <<200, 945, 931>>, <<210, 1018, 1009>>, <<220, 1091, 1091>>, <<230, 1173, 1173>>,
    <<240, 1254, 1254>>, <<250, 1335, 1335>>, <<260, 1418, 1418>>, <<270, 1500, 1500>>, <<280, 2583, 2583>>, <<290, 1668, 1668>>,
    <<300, 1755, 1755>>, <<310, 1845, 1845>>, <<320, 1926, 1926>>, <<330, 2018, 2018>>, <<340, 2110, 2110>>, <<350, 2204, 2204>>,
    <<360, 2298, 2298>>, <<370, 2388, 2388>>, <<380, 2480, 2480>>, <<390, 2575, 2575>>, <<400, 2670, 2670>>, <<410, 2765, 2765>>,
    <<420, 2862, 2862>>, <<430, 2960, 2960>>, <<440, 3060, 3060>>, <<450, 3150, 3150>>, <<500, 3620, 3620>>
>>

OUT_OF_RANGE == "Out of Range."

USE_NEXT_SIZE == "Out of range. Use next valid pipe size."

INVALID_FLUSH_TYPE == "Error: Invalid flush type."

UNABLE == "Error: Unable to calculate fixture units."

\* gpm_input < fixture_data[0][0] or gpm_input > fixture_data[-1][0],
\* for gpm_input = n/d.
OutsideTable_mutant_inclusive(n, d) ==
    \/ n <= fixture_data[1][1] * d
    \/ n > fixture_data[Len(fixture_data)][1] * d

OutsideTable(n, d) ==
    \/ n < fixture_data[1][1] * d
    \/ n > fixture_data[Len(fixture_data)][1] * d

\* gpm1 <= gpm_input <= gpm2 for rows i and i + 1 (rows are numbered from 1).
Brackets(i, n, d) ==
    /\ fixture_data[i][1] * d <= n
    /\ n <= fixture_data[i + 1][1] * d

\* floor(v1 + (v2 - v1) * (gpm_input - gpm1) / (gpm2 - gpm1))
Interpolate(v1, v2, gpm1, gpm2, n, d) ==
    floor(v1 * (gpm2 - gpm1) * d + (v2 - v1) * (n - gpm1 * d), (gpm2 - gpm1) * d)

\* The valve branch of the loop body, rows i and i + 1.
ValveUnits_mutant_interpolate_none(i, n, d) ==
    LET gpm1 == fixture_data[i][1]
        valve1 == fixture_data[i][3]
        gpm2 == fixture_data[i + 1][1]
        valve2 == fixture_data[i + 1][3]
    IN  IntResult(Interpolate(IF valve1 = None THEN 0 ELSE valve1,
                              IF valve2 = None THEN 0 ELSE valve2, gpm1, gpm2, n, d))

ValveUnits(i, n, d) ==
    LET gpm1 == fixture_data[i][1]
        valve1 == fixture_data[i][3]
        gpm2 == fixture_data[i + 1][1]
        valve2 == fixture_data[i + 1][3]
    IN  IF valve1 = None \/ valve2 = None
        THEN IF valve1 # None THEN IntResult(valve1) ELSE StrResult(USE_NEXT_SIZE)
        ELSE IntResult(Interpolate(valve1, valve2, gpm1, gpm2, n, d))

\* The tank branch of the loop body, rows i and i + 1.
TankUnits(i, n, d) ==
    LET gpm1 == fixture_data[i][1]
        tank1 == fixture_data[i][2]
        gpm2 == fixture_data[i + 1][1]
        tank2 == fixture_data[i + 1][2]
    IN  IntResult(Interpolate(tank1, tank2, gpm1, gpm2, n, d))

\* The if / elif / else on flush_type.lower() inside the bracketing pair.
SelectColumn_mutant_default_tank(i, n, d, flush_type) ==
    IF lower(flush_type) = str_valve THEN ValveUnits(i, n, d) ELSE TankUnits(i, n, d)

SelectColumn(i, n, d, flush_type) ==
    IF lower(flush_type) = str_tank THEN TankUnits(i, n, d)
    ELSE IF lower(flush_type) = str_valve THEN ValveUnits(i, n, d)
    ELSE StrResult(INVALID_FLUSH_TYPE)

\* for i in range(len(fixture_data) - 1), entered at pair i: the loop returns
\* at the first pair that brackets the input, which is the bracketing pair of
\* least index; when no pair brackets it the loop ends and line 22 returns.
SearchPairs(i, n, d, flush_type) ==
    LET hits == {k \in i..(Len(fixture_data) - 1) : Brackets(k, n, d)}
    IN  IF hits = {} THEN StrResult(UNABLE)
        ELSE SelectColumn(CHOOSE k \in hits : \A j \in hits : k <= j,
                          n, d, flush_type)

\* interpolate_fixture_units(gpm_input, flush_type), gpm_input = n/d.
interpolate_fixture_units_mutant_skip_first_pair(n, d, flush_type) ==
    IF OutsideTable(n, d) THEN StrResult(OUT_OF_RANGE)
    ELSE SearchPairs(2, n, d, flush_type)

interpolate_fixture_units(n, d, flush_type) ==
    IF OutsideTable(n, d) THEN StrResult(OUT_OF_RANGE)
    ELSE SearchPairs(1, n, d, flush_type)

\* ------------------------------------------------------------------------
\* Python floats
\* ------------------------------------------------------------------------
\* A float is the exact rational Num(n, d), d > 0, in lowest terms; or
\* Denorm(k), the positive subnormal double k * 2^-1074, for which products
\* and quotients round to a whole number of steps (to zero below half a
\* step) as IEEE-754 does; or Inf, what a float division returns on overflow.
\* ZeroDivisionError stands for the exception of that name.

RECURSIVE GCD(_, _)
GCD(a, b) == IF b = 0 THEN a ELSE GCD(b, a % b)

Abs(a) == IF a < 0 THEN -a ELSE a

Num(n, d) ==
    LET g == GCD(Abs(n), Abs(d))
        sg == IF d < 0 THEN -1 ELSE 1
    IN  [cls |-> "num", num |-> sg * (n \div g), den |-> sg * (d \div g)]

Denorm(k) == [cls |-> "denorm", num |-> k, den |-> 1]

Inf == [cls |-> "inf", num |-> 1, den |-> 1]

ZeroDivisionError == [cls |-> "ZeroDivisionError", num |-> 0, den |-> 1]

\* No float yet (a local that is not assigned).
NoFloat == [cls |-> "unset", num |-> 0, den |-> 1]

IsZero(x) == x.cls = "num" /\ x.num = 0

\* Round a/b (a >= 0, b > 0) to the nearest integer, ties to even.
RoundHalfEven(a, b) ==
    LET q == a \div b
        r == a % b
    IN  IF 2 * r < b THEN q
        ELSE IF 2 * r > b THEN q + 1
        ELSE IF q % 2 = 0 THEN q ELSE q + 1

\* x * (a/b) for a positive rational a/b.
FTimes(x, a, b) ==
    IF x.cls = "num"
    THEN LET g1 == GCD(Abs(x.num), b)
             g2 == GCD(a, x.den)
         IN  Num((x.num \div g1) * (a \div g2), (x.den \div g2) * (b \div g1))
    ELSE IF x.cls = "denorm"
    THEN LET q == RoundHalfEven(x.num * a, b)
         IN  IF q = 0 THEN Num(0, 1) ELSE Denorm(q)
    ELSE x

\* x < y.  A subnormal is positive and below every positive rational used.
FLess(x, y) ==
    IF x.cls = "num" /\ y.cls = "num" THEN x.num * y.den < y.num * x.den
    ELSE IF x.cls = "denorm" /\ y.cls = "num" THEN y.num > 0
    ELSE IF x.cls = "num" /\ y.cls = "denorm" THEN x.num <= 0
    ELSE IF x.cls = "denorm" /\ y.cls = "denorm" THEN x.num < y.num
    ELSE FALSE

\* Python's min(a, b): a unless b < a.
min(a, b) == IF FLess(b, a) THEN b ELSE a

\* c / x for a positive integer c: raises on x = 0.0, overflows to inf on a
\* subnormal x.
IntOver(c, x) ==
    IF x.cls = "num"
    THEN IF x.num = 0 THEN ZeroDivisionError ELSE Num(c * x.den, x.num)
    ELSE IF x.cls = "denorm" THEN Inf
    ELSE Num(0, 1)

\* ------------------------------------------------------------------------
\* fluid_dynamic_equations.py
\* ------------------------------------------------------------------------

\* scipy.optimize.fsolve(func, x0) without full_output: it returns its last
\* iterate x whether or not it converged (ier # 1 only emits a warning).  An
\* outcome is any of the iterates with either verdict.
FsolveOutcomes(iterates) == [x : iterates, converged : BOOLEAN]

\* The outcome of a root-find that was not run.
NotInvoked == [x |-> NoFloat, converged |-> FALSE]

\* Last iterates of the Colebrook-White root-find (0.02 is initial_guess).
FrictionIterates == {Num(1, 50), Num(3, 100)}

\* Last iterates of the velocity root-find (5 ft/s is velocity_guess).
VelocityIterates == {Num(5, 1), Num(9, 1), Num(1, 10), Num(-3, 1)}

\* reynolds_num(velocity, diam_inch, kin_visc) with diam_inch = diam_milli/1000
\* and kin_visc = visc_n/visc_d: (velocity * (diam_inch / 12.0)) / kin_visc.
reynolds_num(velocity, diam_milli, visc_n, visc_d) ==
    FTimes(FTimes(velocity, diam_milli, 12000), visc_d, visc_n)

\* friction_factor_solver(re, epsilon, diam_inch): what it returns or raises,
\* and the root-find it ran.  root is the outcome fsolve would give.
friction_factor_solver_mutant_always_fsolve(re, root) ==
    [value |-> root.x, fsolve |-> root, invoked |-> TRUE]

friction_factor_solver(re, root) ==
    IF FLess(re, Num(2000, 1))
    THEN [value |-> IntOver(64, re), fsolve |-> NotInvoked, invoked |-> FALSE]
    ELSE [value |-> root.x, fsolve |-> root, invoked |-> TRUE]

\* solve_velocity_given_pressure_drop(friction_rate_target, ...): the float
\* of fsolve's solution[0].  root is the outcome fsolve would give.
solve_velocity_given_pressure_drop(friction_rate_target, root) ==
    [value |-> root.x, fsolve |-> root, invoked |-> TRUE]

\* No call made yet.
NoCall == [value |-> NoFloat, fsolve |-> NotInvoked, invoked |-> FALSE]

\* ------------------------------------------------------------------------
\* Calls of interpolate_fixture_units on drawn inputs
\* ------------------------------------------------------------------------

\* A drawn flow is gpm_input / GpmScale: with GpmScale = 2 the halves, which
\* are exact as doubles (22.5 is 45/2).
GpmScale == 2

\* Flows are drawn from GpmBeyond below zero to GpmBeyond above the last
\* breakpoint of the table.
GpmBeyond == 2

GpmInputs ==
    (-(GpmBeyond * GpmScale)) ..
        ((fixture_data[Len(fixture_data)][1] + GpmBeyond) * GpmScale)

\* "tank", "Tank", "TANK", "valve", "Valve", "VALVE", "tanks", "flush", ""
FlushTypes ==
    { <<116, 97, 110, 107>>, <<84, 97, 110, 107>>, <<84, 65, 78, 75>>,
      <<118, 97, 108, 118, 101>>, <<86, 97, 108, 118, 101>>,
      <<86, 65, 76, 86, 69>>, <<116, 97, 110, 107, 115>>,
      <<102, 108, 117, 115, 104>>, <<>> }

VARIABLES
    \* a call of interpolate_fixture_units
    gpm_input,      \* the flow passed, as a numerator over GpmScale
    flush_type,     \* the mode passed, as character codes
    fixture_units,  \* what interpolate_fixture_units returned, or Unset
    \* calls of the two solvers
    solver_re,      \* the Reynolds number passed to friction_factor_solver
    solver_target,  \* the friction rate passed to solve_velocity_given_pressure_drop
    ff_call,        \* what friction_factor_solver returned or raised, or NoCall
    sv_call,        \* what solve_velocity_given_pressure_drop returned, or NoCall
    \* the window of pipe_flow_calcs.py
    entries,        \* the text of each input field
    fixture_type_combobox,
    labels,         \* the four friction rate labels
    table_cw,       \* the rows of the cold water table
    table_hw,       \* the rows of the hot water table
    pc,             \* where calculate is: "ready" (not running), "cw", "hw"
    pipe_index,     \* the pipe size the loop of calculate is at (0 outside it)
    cw,             \* the cold water locals of the current loop iteration
    run,            \* how the last run of calculate went
    solver_calls,   \* solver calls made by the current or last run of calculate
    evaluated,      \* pipe sizes whose evaluation that run started
    raised_at       \* the pipe size at which it raised ZeroDivisionError (0: none)

interp_vars == <<gpm_input, flush_type, fixture_units>>

solver_vars == <<solver_re, solver_target, ff_call, sv_call>>

calc_vars ==
    <<entries, fixture_type_combobox, labels, table_cw, table_hw, pc, pipe_index,
      cw, run, solver_calls, evaluated, raised_at>>

vars == <<interp_vars, solver_vars, calc_vars>>

InterpInit ==
    /\ gpm_input \in GpmInputs
    /\ flush_type \in FlushTypes
    /\ fixture_units = Unset

\* No call of interpolate_fixture_units is drawn.
InterpIdle ==
    /\ gpm_input = 0
    /\ flush_type = <<>>
    /\ fixture_units = Unset

CallInterpolate ==
    /\ fixture_units = Unset
    /\ fixture_units' = interpolate_fixture_units(gpm_input, GpmScale, flush_type)
    /\ UNCHANGED <<gpm_input, flush_type>>

\* ------------------------------------------------------------------------
\* Calls of the solvers on drawn inputs
\* ------------------------------------------------------------------------

\* A drawn Reynolds number is n / ReScale.
ReScale == 2

\* Reynolds numbers are drawn from ReBeyond below zero to ReBeyond above the
\* laminar limit 2000.
ReBeyond == 3

ReInputs ==
    { Num(n, ReScale) : n \in (-(ReBeyond * ReScale))..((2000 + ReBeyond) * ReScale) }

\* Target friction rates, ft per 100 ft: 231 (8 psi over 8 ft), 0.385 (1 psi
\* over 600 ft) and -144.375 (-5 psi over 8 ft).
TargetInputs == {Num(231, 1), Num(77, 200), Num(-1155, 8)}

SolverInit ==
    /\ solver_re \in ReInputs
    /\ solver_target \in TargetInputs
    /\ ff_call = NoCall
    /\ sv_call = NoCall

\* No solver call is drawn.
SolverIdle ==
    /\ solver_re = NoFloat
    /\ solver_target = NoFloat
    /\ ff_call = NoCall
    /\ sv_call = NoCall

CallFrictionFactor ==
    /\ ff_call = NoCall
    /\ sv_call = NoCall
    /\ \E root \in FsolveOutcomes(FrictionIterates) :
          ff_call' = friction_factor_solver(solver_re, root)
    /\ UNCHANGED <<solver_re, solver_target, sv_call>>

CallSolveVelocity ==
    /\ ff_call = NoCall
    /\ sv_call = NoCall
    /\ \E root \in FsolveOutcomes(VelocityIterates) :
          sv_call' = solve_velocity_given_pressure_drop(solver_target, root)
    /\ UNCHANGED <<solver_re, solver_target, ff_call>>

\* ------------------------------------------------------------------------
\* pipe_flow_calcs.py
\* ------------------------------------------------------------------------

\* WATER_KIN_VISC = 1.2075e-5 = 483 / 40000000
WATER_KIN_VISC_N == 483

WATER_KIN_VISC_D == 40000000

\* copper_pipe_sizes, in dict order: <<nominal size, inner diameter>>, both
\* in thousandths of an inch.
copper_pipe_sizes ==
    << <<500, 545>>, <<750, 785>>, <<1000, 1025>>, <<1250, 1265>>, <<1500, 1505>>,
       <<2000, 1985>>, <<2500, 2465>>, <<3000, 2945>>, <<4000, 3905>> >>

\* float(text) failed.
ValueError == [cls |-> "ValueError", num |-> 0, den |-> 1]

\* The text "1e-323", which float() reads as the subnormal 2 * 2^-1074.
str_1e_323 == <<49, 101, 45, 51, 50, 51>>

RECURSIVE DigitsValue(_, _)
DigitsValue(s, acc) ==
    IF s = <<>> THEN acc ELSE DigitsValue(Tail(s), 10 * acc + (Head(s) - 48))

\* float(text) for the texts typed here: an optional '-' (45) and decimal
\* digits (48..57), or 1e-323; anything else, the empty text included, raises
\* ValueError.
float(s) ==
    IF s = str_1e_323 THEN Denorm(2)
    ELSE LET neg == s # <<>> /\ Head(s) = 45
             body == IF neg THEN Tail(s) ELSE s
         IN  IF body = <<>> \/ \E k \in DOMAIN body : body[k] \notin 48..57
             THEN ValueError
             ELSE Num((IF neg THEN -1 ELSE 1) * DigitsValue(body, 0), 1)

\* get_float(entry): float(entry.get()), 0.0 on ValueError.
get_float(text) == IF float(text) = ValueError THEN Num(0, 1) ELSE float(text)

\* f"{x:.2f}" as a whole number of hundredths.
Format2f(x) ==
    (IF x.num < 0 THEN -1 ELSE 1) * RoundHalfEven(Abs(x.num) * 100, x.den)

EntryNames == {"cw_pressure", "hw_pressure", "length", "cw_velocity", "hw_velocity"}

\* Texts typed into the pressure and length fields: "", "-5", "8".
QuantityTexts == { <<>>, <<45, 53>>, <<56>> }

\* Texts typed into the velocity fields: "", "-5", "8", "1e-323".
VelocityTexts == QuantityTexts \cup {str_1e_323}

TextsOf(e) == IF e \in {"cw_velocity", "hw_velocity"} THEN VelocityTexts ELSE QuantityTexts

ComboboxValues == {"Flush Valve Tanks", "Flushometer Valves"}

\* "Tank" and "Valve" as character codes.
str_Tank == <<84, 97, 110, 107>>

str_Valve == <<86, 97, 108, 118, 101>>

\* A table row: the pipe size and either the computed values or "-" in
\* every other column.  The values of a row are those of the locals of the
\* iteration that inserted it.
ValuesRow(pipe_size) == [size |-> pipe_size, kind |-> "values"]

DashRow(pipe_size) == [size |-> pipe_size, kind |-> "dashes"]

\* The except ZeroDivisionError block: both tables are cleared and get a
\* row of dashes for every pipe size.
DashRows == [k \in 1..Len(copper_pipe_sizes) |-> DashRow(copper_pipe_sizes[k][1])]

NoLabels == [set |-> FALSE, cw |-> 0, cw_psi |-> 0, hw |-> 0, hw_psi |-> 0]

\* The locals of one water system in a loop iteration.
NoLocals ==
    [velocity |-> NoFloat, re |-> NoFloat, fric_factor |-> NoFloat, gpm |-> NoFloat,
     fixture_units |-> Unset, solve |-> NotInvoked, fric |-> NotInvoked]

\* interpolate_fixture_units on a float: a subnormal flow is below the first
\* breakpoint.
interpolate_float(gpm, type) ==
    IF gpm.cls = "num" THEN interpolate_fixture_units(gpm.num, gpm.den, type)
    ELSE StrResult(OUT_OF_RANGE)

\* Lines 103-114 (cold) and 117-126 (hot): solve the velocity, clamp it,
\* Reynolds number, friction factor, flow, fixture units.  fric_factor is
\* ZeroDivisionError when friction_factor_solver raises.  The pressure drop
\* column (darcy_weisbach_pressure_drop) is a pure product of these and is
\* not carried.
Evaluate(friction_rate, max_velocity, diam, type, vroot, froot) ==
    LET solve == solve_velocity_given_pressure_drop(friction_rate, vroot)
        velocity == min(solve.value, max_velocity)
        re == reynolds_num(velocity, diam, WATER_KIN_VISC_N, WATER_KIN_VISC_D)
        fric == friction_factor_solver(re, froot)
        gpm == FTimes(FTimes(velocity, diam * diam, 1000000), 10000, 4084)
    IN  [velocity |-> velocity, re |-> re, fric_factor |-> fric.value, gpm |-> gpm,
         fixture_units |->
             IF fric.value = ZeroDivisionError THEN Unset
             ELSE interpolate_float(gpm, type),
         solve |-> solve.fsolve, fric |-> fric.fsolve]

\* cw_pressure_psi == 0 or hw_pressure_psi == 0 or developed_length == 0 or
\* cw_max_velocity == 0 or hw_max_velocity == 0
InputCheck(e) == \E n \in EntryNames : IsZero(get_float(e[n]))

\* (pressure / developed_length) * 2.31 * 100
FrictionRate(pressure, developed_length) ==
    FTimes(Num(pressure.num * developed_length.den, pressure.den * developed_length.num),
           231, 1)

cw_fixture_type(combobox) == IF combobox = "Flush Valve Tanks" THEN str_Tank ELSE str_Valve

\* calculate from its first line to the start of the loop, with the input
\* fields holding e: either the check raises and the except block shows the
\* rows of dashes, or the labels are set, the tables cleared and the loop
\* entered.
CalculateStart(e) ==
    IF InputCheck(e)
    THEN /\ table_cw' = DashRows
         /\ table_hw' = DashRows
         /\ pc' = "ready"
         /\ pipe_index' = 0
         /\ run' = "rejected"
         /\ UNCHANGED labels
    ELSE /\ LET cw_rate == FrictionRate(get_float(e["cw_pressure"]), get_float(e["length"]))
                hw_rate == FrictionRate(get_float(e["hw_pressure"]), get_float(e["length"]))
            IN  labels' = [set |-> TRUE,
                           cw |-> Format2f(cw_rate),
                           cw_psi |-> Format2f(FTimes(cw_rate, 100, 231)),
                           hw |-> Format2f(hw_rate),
                           hw_psi |-> Format2f(FTimes(hw_rate, 100, 231))]
         /\ table_cw' = <<>>
         /\ table_hw' = <<>>
         /\ pc' = "cw"
         /\ pipe_index' = 1
         /\ run' = "running"

\* <KeyRelease> in an input field: the field holds a new text and calculate
\* runs.
KeyRelease ==
    /\ pc = "ready"
    /\ \E n \in EntryNames : \E t \in TextsOf(n) :
          /\ entries' = [entries EXCEPT ![n] = t]
          /\ CalculateStart(entries')
    /\ cw' = NoLocals
    /\ solver_calls' = 0
    /\ evaluated' = 0
    /\ raised_at' = 0
    /\ UNCHANGED fixture_type_combobox

\* <<ComboboxSelected>>: the fixture type is chosen and calculate runs.
ComboboxSelected ==
    /\ pc = "ready"
    /\ \E v \in ComboboxValues : fixture_type_combobox' = v
    /\ CalculateStart(entries)
    /\ cw' = NoLocals
    /\ solver_calls' = 0
    /\ evaluated' = 0
    /\ raised_at' = 0
    /\ UNCHANGED entries

\* ZeroDivisionError raised inside the loop: the except block runs and
\* calculate returns.
LoopRaises ==
    /\ table_cw' = DashRows
    /\ table_hw' = DashRows
    /\ pc' = "ready"
    /\ raised_at' = pipe_index
    /\ pipe_index' = 0
    /\ cw' = NoLocals
    /\ run' = "aborted"

\* The cold water half of a loop iteration (lines 103-114).
EvaluateCW ==
    /\ pc = "cw"
    /\ \E vroot \in FsolveOutcomes(VelocityIterates) :
       \E froot \in FsolveOutcomes(FrictionIterates) :
          LET rate == FrictionRate(get_float(entries["cw_pressure"]),
                                   get_float(entries["length"]))
              r == Evaluate(rate, get_float(entries["cw_velocity"]),
                            copper_pipe_sizes[pipe_index][2],
                            cw_fixture_type(fixture_type_combobox), vroot, froot)
          IN  IF r.fric_factor = ZeroDivisionError
              THEN LoopRaises
              ELSE /\ cw' = r
                   /\ pc' = "hw"
                   /\ UNCHANGED <<table_cw, table_hw, pipe_index, run, raised_at>>
    /\ solver_calls' = solver_calls + 2
    /\ evaluated' = evaluated + 1
    /\ UNCHANGED <<entries, fixture_type_combobox, labels>>

\* The hot water half of a loop iteration and the two inserts (lines
\* 117-140); after the last pipe size calculate returns.
EvaluateHW ==
    /\ pc = "hw"
    /\ \E vroot \in FsolveOutcomes(VelocityIterates) :
       \E froot \in FsolveOutcomes(FrictionIterates) :
          LET rate == FrictionRate(get_float(entries["hw_pressure"]),
                                   get_float(entries["length"]))
              r == Evaluate(rate, get_float(entries["hw_velocity"]),
                            copper_pipe_sizes[pipe_index][2], str_Tank, vroot, froot)
              last == pipe_index = Len(copper_pipe_sizes)
          IN  IF r.fric_factor = ZeroDivisionError
              THEN LoopRaises
              ELSE /\ table_cw' = Append(table_cw, ValuesRow(copper_pipe_sizes[pipe_index][1]))
                   /\ table_hw' = Append(table_hw, ValuesRow(copper_pipe_sizes[pipe_index][1]))
                   /\ cw' = NoLocals
                   /\ pc' = IF last THEN "ready" ELSE "cw"
                   /\ pipe_index' = IF last THEN 0 ELSE pipe_index + 1
                   /\ run' = IF last THEN "completed" ELSE run
                   /\ UNCHANGED raised_at
    /\ solver_calls' = solver_calls + 2
    /\ UNCHANGED <<entries, fixture_type_combobox, labels, evaluated>>

\* The window as built: empty fields, the first fixture type selected, the
\* labels at "N/A", empty tables.
CalcInit ==
    /\ entries = [n \in EntryNames |-> <<>>]
    /\ fixture_type_combobox = "Flush Valve Tanks"
    /\ labels = NoLabels
    /\ table_cw = <<>>
    /\ table_hw = <<>>
    /\ pc = "ready"
    /\ pipe_index = 0
    /\ cw = NoLocals
    /\ run = "none"
    /\ solver_calls = 0
    /\ evaluated = 0
    /\ raised_at = 0

\* ------------------------------------------------------------------------
\* Specifications
\* ------------------------------------------------------------------------

InterpNext == CallInterpolate /\ UNCHANGED <<solver_vars, calc_vars>>

InterpSpecInit == InterpInit /\ SolverIdle /\ CalcInit

SpecInterp == InterpSpecInit /\ [][InterpNext]_vars

SolverNext ==
    \/ CallFrictionFactor /\ UNCHANGED <<interp_vars, calc_vars>>
    \/ CallSolveVelocity /\ UNCHANGED <<interp_vars, calc_vars>>

SolverSpecInit == InterpIdle /\ SolverInit /\ CalcInit

SpecSolvers == SolverSpecInit /\ [][SolverNext]_vars

CalcNext ==
    \/ KeyRelease /\ UNCHANGED <<interp_vars, solver_vars>>
    \/ ComboboxSelected /\ UNCHANGED <<interp_vars, solver_vars>>
    \/ EvaluateCW /\ UNCHANGED <<interp_vars, solver_vars>>
    \/ EvaluateHW /\ UNCHANGED <<interp_vars, solver_vars>>

CalcSpecInit == InterpIdle /\ SolverIdle /\ CalcInit

SpecCalc == CalcSpecInit /\ [][CalcNext]_vars

\* ------------------------------------------------------------------------
\* Properties of interpolate_fixture_units
\* ------------------------------------------------------------------------

Returned == fixture_units # Unset

IsTank == lower(flush_type) = str_tank

IsValve == lower(flush_type) = str_valve

\* 1 <= gpm <= 500
InsideTable == 1 * GpmScale <= gpm_input /\ gpm_input <= 500 * GpmScale

PairBrackets(i) ==
    /\ fixture_data[i][1] * GpmScale <= gpm_input
    /\ gpm_input <= fixture_data[i + 1][1] * GpmScale

\* Pair i is the first pair, in table order, that brackets the flow.
FirstPair(i) == PairBrackets(i) /\ \A j \in 1..(i - 1) : ~PairBrackets(j)

\* r is the floor of v1 + (v2 - v1) * (gpm - gpm1) / (gpm2 - gpm1) for pair i
\* and column col (2 tank, 3 valve): r <= the quotient < r + 1.
IsFlooredInterpolation(r, i, col) ==
    LET gpm1 == fixture_data[i][1]
        gpm2 == fixture_data[i + 1][1]
        v1 == fixture_data[i][col]
        v2 == fixture_data[i + 1][col]
        den == (gpm2 - gpm1) * GpmScale
        num == v1 * den + (v2 - v1) * (gpm_input - gpm1 * GpmScale)
    IN  r * den <= num /\ num < (r + 1) * den

\* C1: below the first breakpoint (1) or above the last (500), tank and valve
\* mode both return the out-of-range indicator, which is no number; for a flow
\* inside [1, 500] that indicator is never returned, whatever the mode.
C1_OutOfRange ==
    Returned =>
        /\ (IsTank \/ IsValve) /\ (gpm_input < 1 * GpmScale \/ gpm_input > 500 * GpmScale)
              => fixture_units = StrResult(OUT_OF_RANGE) /\ fixture_units.type # "int"
        /\ InsideTable => fixture_units # StrResult(OUT_OF_RANGE)

C1_Witness ==
    /\ Returned
    /\ IsValve
    /\ gpm_input > 500 * GpmScale
    /\ fixture_units = StrResult(OUT_OF_RANGE)

\* C2: in tank mode, for a flow inside the table, the result is the floored
\* linear interpolation of the tank column over the first bracketing pair of
\* adjacent breakpoints; 22.5 gives 35.
C2_TankInterpolation ==
    Returned /\ IsTank /\ InsideTable =>
        /\ \E i \in 1..(Len(fixture_data) - 1) :
              /\ FirstPair(i)
              /\ fixture_units.type = "int"
              /\ IsFlooredInterpolation(fixture_units.int, i, 2)
        /\ 2 * gpm_input = 45 * GpmScale => fixture_units = IntResult(35)

C2_Witness ==
    /\ Returned
    /\ IsTank
    /\ 2 * gpm_input = 45 * GpmScale
    /\ fixture_units = IntResult(35)

\* C3: in valve mode, for a flow inside the table whose first bracketing pair
\* has an undefined valve entry at either end, the result is the lower entry
\* if that is defined and the "use next pipe size" indicator otherwise, never
\* 0, None or an interpolated number; with both entries defined it is the
\* floored linear interpolation of the valve column.
C3_ValveUndefined ==
    Returned /\ IsValve /\ InsideTable =>
        \E i \in 1..(Len(fixture_data) - 1) :
            /\ FirstPair(i)
            /\ LET valve1 == fixture_data[i][3]
                   valve2 == fixture_data[i + 1][3]
               IN  IF valve1 = None \/ valve2 = None
                   THEN /\ fixture_units =
                             (IF valve1 # None THEN IntResult(valve1)
                              ELSE StrResult(USE_NEXT_SIZE))
                        /\ fixture_units # IntResult(0)
                        /\ fixture_units # IntResult(None)
                        /\ valve1 = None => fixture_units.type = "str"
                   ELSE /\ fixture_units.type = "int"
                        /\ IsFlooredInterpolation(fixture_units.int, i, 3)

C3_Witness ==
    /\ Returned
    /\ IsValve
    /\ 2 * gpm_input = 43 * GpmScale
    /\ fixture_units = StrResult(USE_NEXT_SIZE)

Unrecognized == ~IsTank /\ ~IsValve

\* C4 as stated: for every flow, inside or outside the table, a mode that is
\* neither tank nor valve (case folded) returns the invalid-mode error.
C4_InvalidModeAnyGpm ==
    Returned /\ Unrecognized => fixture_units = StrResult(INVALID_FLUSH_TYPE)

\* C4 amended: for a flow inside the table an unrecognized mode returns the
\* invalid-mode error, which is a str distinct from the out-of-range and the
\* "use next pipe size" indicators; for a flow outside the table it returns
\* the out-of-range indicator, the range being checked before the mode; a
\* recognized mode, in any letter case, never returns the invalid-mode error.
C4_InvalidModeInsideTable ==
    Returned =>
        /\ Unrecognized /\ InsideTable =>
              /\ fixture_units = StrResult(INVALID_FLUSH_TYPE)
              /\ fixture_units.type = "str"
              /\ fixture_units.str \notin {OUT_OF_RANGE, USE_NEXT_SIZE}
        /\ Unrecognized /\ ~InsideTable => fixture_units = StrResult(OUT_OF_RANGE)
        /\ IsTank \/ IsValve => fixture_units # StrResult(INVALID_FLUSH_TYPE)

C4_Witness ==
    /\ Returned
    /\ Unrecognized
    /\ InsideTable
    /\ fixture_units = StrResult(INVALID_FLUSH_TYPE)

\* C5: over consecutive breakpoints the flow strictly increases, the tank
\* units do not decrease and the valve units, where both are defined, do not
\* decrease; stated of every pair of consecutive breakpoints that brackets
\* the drawn flow (the flows drawn cover every pair).
C5_TableOrdered ==
    \A i \in 1..(Len(fixture_data) - 1) :
        PairBrackets(i) =>
            /\ fixture_data[i][1] < fixture_data[i + 1][1]
            /\ fixture_data[i][2] <= fixture_data[i + 1][2]
            /\ fixture_data[i][3] # None /\ fixture_data[i + 1][3] # None
                  => fixture_data[i][3] <= fixture_data[i + 1][3]

\* C10: called with exactly a breakpoint's flow, each mode whose entry in that
\* row is defined returns exactly that entry (valve at 22 gives 5), and the
\* "use next pipe size" indicator is returned only for flows below 22.
C10_ExactAtBreakpoints ==
    Returned =>
        /\ \A k \in 1..Len(fixture_data) :
              gpm_input = fixture_data[k][1] * GpmScale =>
                  /\ IsTank => fixture_units = IntResult(fixture_data[k][2])
                  /\ IsValve /\ fixture_data[k][3] # None
                        => fixture_units = IntResult(fixture_data[k][3])
        /\ fixture_units = StrResult(USE_NEXT_SIZE) => gpm_input < 22 * GpmScale

\* C11: for every flow inside [1, 500] and every mode the loop finds a
\* bracketing pair of adjacent breakpoints, so the fall-through result
\* "Error: Unable to calculate fixture units." is never returned; in tank
\* mode the integer returned lies between the tank entries of the first
\* bracketing pair, inclusive (the smaller and the larger of the two).
C11_TableCovered ==
    Returned /\ InsideTable =>
        /\ fixture_units # StrResult(UNABLE)
        /\ \E i \in 1..(Len(fixture_data) - 1) :
              /\ FirstPair(i)
              /\ IsTank =>
                    LET tank1 == fixture_data[i][2]
                        tank2 == fixture_data[i + 1][2]
                        lo == IF tank1 <= tank2 THEN tank1 ELSE tank2
                        hi == IF tank1 <= tank2 THEN tank2 ELSE tank1
                    IN  /\ fixture_units.type = "int"
                        /\ lo <= fixture_units.int
                        /\ fixture_units.int <= hi

C11_Witness ==
    /\ Returned
    /\ IsTank
    /\ gpm_input = 285 * GpmScale
    /\ fixture_units = IntResult(2125)

\* ------------------------------------------------------------------------
\* Properties of the solvers
\* ------------------------------------------------------------------------

\* The value is a number, not a failure outcome.
IsNumeric(x) == x.cls \in {"num", "denorm", "inf"}

\* C6: when the root-find of friction_factor_solver (turbulent branch) or of
\* solve_velocity_given_pressure_drop did not converge, the caller gets a
\* distinct failure outcome and never a number (the last iterate).
C6_NonConvergenceReported ==
    /\ ff_call.invoked /\ ~ff_call.fsolve.converged => ~IsNumeric(ff_call.value)
    /\ sv_call.invoked /\ ~sv_call.fsolve.converged => ~IsNumeric(sv_call.value)

FrictionCalled == ff_call # NoCall

ReBelow2000 == solver_re.num < 2000 * solver_re.den

\* The value returned is exactly 64 / solver_re.
Is64OverRe ==
    /\ ff_call.value.cls = "num"
    /\ ff_call.value.num * solver_re.num = 64 * ff_call.value.den * solver_re.den

\* C9 as stated: for every Re < 2000 the result is exactly 64/Re and the
\* root-finder is not invoked; for every Re >= 2000 the result comes from the
\* Colebrook-White root-find.
C9_LaminarEveryRe ==
    FrictionCalled =>
        /\ ReBelow2000 => Is64OverRe /\ ~ff_call.invoked
        /\ ~ReBelow2000 => ff_call.invoked /\ ff_call.value = ff_call.fsolve.x

\* C9 amended: for every Re < 2000 other than 0 the result is exactly 64/Re
\* (negative for a negative Re); for Re = 0 the division raises
\* ZeroDivisionError and nothing is returned; in both cases the root-finder is
\* not invoked; for every Re >= 2000 the result is the root-find's iterate.
C9_LaminarNonZeroRe ==
    FrictionCalled =>
        /\ ReBelow2000 /\ solver_re.num # 0 => Is64OverRe /\ ~ff_call.invoked
        /\ solver_re.num = 0 => ff_call.value = ZeroDivisionError /\ ~ff_call.invoked
        /\ ~ReBelow2000 =>
              /\ ff_call.invoked
              /\ ff_call.value = ff_call.fsolve.x
              /\ ff_call.value \in FrictionIterates

C9_Witness ==
    /\ FrictionCalled
    /\ solver_re = Num(1999, 1)
    /\ ff_call.value = Num(64, 1999)
    /\ ~ff_call.invoked

\* ------------------------------------------------------------------------
\* Properties of calculate
\* ------------------------------------------------------------------------

\* One of the five inputs read by get_float is zero or negative.
SomeInputNonPositive ==
    \E n \in EntryNames :
        LET x == get_float(entries[n])
        IN  x.cls = "num" /\ x.num <= 0

\* C7: whenever calculate runs with a pressure, length or maximum velocity
\* input that is zero or negative, no solver is invoked and both tables show
\* the error rows.
C7_NonPositiveRejected ==
    run # "none" /\ SomeInputNonPositive =>
        /\ solver_calls = 0
        /\ pc = "ready" => table_cw = DashRows /\ table_hw = DashRows

\* C8: once calculate has entered its loop over the pipe sizes, a failure at
\* one pipe size does not abort the batch: when calculate has returned, every
\* pipe size was evaluated and every pipe size other than the failing one has
\* its result row in both tables.
C8_BatchNotAborted ==
    pc = "ready" /\ run \in {"aborted", "completed"} =>
        /\ evaluated = Len(copper_pipe_sizes)
        /\ \A k \in 1..Len(copper_pipe_sizes) :
              k # raised_at =>
                  /\ table_cw[k] = ValuesRow(copper_pipe_sizes[k][1])
                  /\ table_hw[k] = ValuesRow(copper_pipe_sizes[k][1])

====
